---- MODULE Spec2Model ----
(***************************************************************************)
(* ink-llm-console: the session service (LLMService: live config, bound    *)
(* adapter, sendMessage, updateConfig, saveChat) and the terminal shell    *)
(* that drives it (App, ChatInterface, SettingsInterface).                 *)
(*                                                                         *)
(* JavaScript values are written as strings holding their source literal:  *)
(* the number 0.7 is "0.7", undefined is "undefined", null is "null".      *)
(* Objects are records; a key that is absent reads as "undefined", as in   *)
(* JavaScript.  Object identity is the allocation index of the object in   *)
(* the sequence of objects of its kind (heap, adapters).                   *)
(***************************************************************************)
EXTENDS Integers, Sequences, FiniteSets, TLC

\* ------------------------------------------------------------- bounds
\* The calls a client makes to the service in one run.
MaxCalls == 3
\* The instants the clock runs through.
MaxClock == 2
\* The calls the shell makes to the service in one run.
MaxAppCalls == 2
\* The arrow keys the user presses in one run.
MaxArrows == 1
\* The timers of the status line that are pending at one time.
MaxTimers == 2
\* The settings saves of one run of the settings view on its own.
MaxSettingsSaves == 1

\* ------------------------------------------------------------- values
Undefined == "undefined"
Null == "null"

\* JavaScript truthiness of a value (the operand of || and of if).
Truthy(v) == v \notin {Undefined, Null, "", "0", "NaN", "false"}

\* a || b
Or(a, b) == IF Truthy(a) THEN a ELSE b

Fields ==
    {"provider", "model", "apiKey", "temperature", "maxTokens",
     "systemPrompt", "saveDirectory", "saveFormat"}

NumericFields == {"temperature", "maxTokens"}

\* The five fields the provider binding is built from.
BindingFields == {"provider", "model", "apiKey", "temperature", "maxTokens"}

NonFinite == {"NaN", "Infinity", "-Infinity"}

\* Available models by provider
availableModels ==
    [anthropic |-> <<"claude-3-7-sonnet-20250219", "claude-3-5-haiku-20241022",
                     "claude-3-5-sonnet-20241022", "claude-3-5-sonnet-20240620",
                     "claude-3-opus-20240229", "claude-3-sonnet-20240229",
                     "claude-3-haiku-20240307">>,
     openai |-> <<"gpt-4-turbo", "gpt-4o", "gpt-4", "gpt-3.5-turbo">>]

Range(s) == {s[i] : i \in 1..Len(s)}

\* process.env as read by the service: two environments.
Envs ==
    {[ANTHROPIC_API_KEY |-> "sk-ant-env", OPENAI_API_KEY |-> "sk-oai-env",
      CHAT_SAVE_DIRECTORY |-> Undefined, CHAT_SAVE_FORMAT |-> Undefined],
     [ANTHROPIC_API_KEY |-> Undefined, OPENAI_API_KEY |-> "sk-oai-env",
      CHAT_SAVE_DIRECTORY |-> "/var/chats", CHAT_SAVE_FORMAT |-> "markdown"]}

\* Default configuration (apiKey is absent)
defaultConfig(e) ==
    [provider |-> "anthropic",
     model |-> "claude-3-opus-20240229",
     apiKey |-> Undefined,
     temperature |-> "0.7",
     maxTokens |-> "1000",
     systemPrompt |-> "You are a helpful AI assistant.",
     saveDirectory |-> Or(e.CHAT_SAVE_DIRECTORY, "./chats"),
     saveFormat |-> IF e.CHAT_SAVE_FORMAT = "markdown" THEN "markdown" ELSE "json"]

\* ------------------------------------------------------------- state
VARIABLES
    env,        \* process.env
    heap,       \* the LLMConfig objects allocated so far, in allocation order
    config,     \* this.config: a reference (index) into heap
    adapters,   \* the ChatAnthropic/ChatOpenAI objects constructed so far
    model,      \* this.model: a reference (index) into adapters
    inflight,   \* the model.invoke calls awaiting the provider, oldest first
    outcome,    \* how the sendMessage that settled last ended
    lastCall,   \* the call the client made last (see Call)
    calls,      \* the number of calls made to the service so far
    snap,       \* the reference the client got from getConfig (0: none)
    passed,     \* the partial object the client passed to updateConfig and kept (0: none)
    now,        \* the clock: the instant new Date() reads
    dirs,       \* the directories that exist
    files,      \* the files written: path -> content
    saved,      \* how each saveChat so far ended, oldest first
    view,       \* App: 'chat' | 'settings'
    messages,   \* ChatInterface: the conversation
    isLoading,  \* ChatInterface: the loading flag
    saveStatus, \* ChatInterface: the status line, and how many of its timers are pending
    form,       \* SettingsInterface: the edited fields
    currentField,      \* SettingsInterface: the field that has the focus
    highlightedIndex,  \* SelectInput: the highlighted item of the mounted list
    arrows      \* the arrow keys the user has pressed so far

svcVars == <<env, heap, config, adapters, model, inflight, outcome, lastCall, calls, snap, passed>>
fsVars == <<now, dirs, files, saved>>
chatVars == <<messages, isLoading, saveStatus>>
settingsVars == <<form, currentField, highlightedIndex>>
uiVars == <<view, chatVars, settingsVars, arrows>>
vars == <<svcVars, fsVars, uiVars>>

\* The live config object.
LiveConfig == heap[config]

\* ------------------------------------------------------------- LLMService
\* new ChatAnthropic({...}) / new ChatOpenAI({...}) in the constructor
constructModel(cfg, e) ==
    IF cfg.provider = "anthropic"
    THEN [class |-> "ChatAnthropic",
          apiKey |-> Or(cfg.apiKey, e.ANTHROPIC_API_KEY),
          modelName |-> Or(cfg.model, "claude-3-opus-20240229"),
          temperature |-> cfg.temperature,
          maxTokens |-> cfg.maxTokens]
    ELSE [class |-> "ChatOpenAI",
          apiKey |-> Or(cfg.apiKey, e.OPENAI_API_KEY),
          modelName |-> Or(cfg.model, "gpt-4-turbo"),
          temperature |-> cfg.temperature,
          maxTokens |-> cfg.maxTokens]

\* A plausible slip in the rebuild: maxTokens is not passed on.
recreateModelDropsMaxTokens(cfg, e) ==
    [constructModel(cfg, e) EXCEPT !.maxTokens = "1000"]

\* "Recreate the model with the new configuration" in updateConfig: the same
\* two constructor calls, written a second time.
recreateModel(cfg, e) ==
    IF cfg.provider = "anthropic"
    THEN [class |-> "ChatAnthropic",
          apiKey |-> Or(cfg.apiKey, e.ANTHROPIC_API_KEY),
          modelName |-> Or(cfg.model, "claude-3-opus-20240229"),
          temperature |-> cfg.temperature,
          maxTokens |-> cfg.maxTokens]
    ELSE [class |-> "ChatOpenAI",
          apiKey |-> Or(cfg.apiKey, e.OPENAI_API_KEY),
          modelName |-> Or(cfg.model, "gpt-4-turbo"),
          temperature |-> cfg.temperature,
          maxTokens |-> cfg.maxTokens]

\* JSON.parse(JSON.stringify(o)) of a flat object: a key whose value is
\* undefined is dropped (and reads as undefined afterwards), a number that is
\* not finite is written as null, every other value is kept.
JsonRoundTrip(o) ==
    [k \in DOMAIN o |->
        IF k \in NumericFields /\ o[k] \in NonFinite THEN Null ELSE o[k]]

\* A plausible slip in the merge: saveFormat is not copied over.
mergeConfigForgetsSaveFormat(cur, newConfig) ==
    JsonRoundTrip(
        [k \in Fields |->
            IF k # "saveFormat" /\ newConfig[k] # Undefined
            THEN newConfig[k] ELSE cur[k]])

\* A plausible slip in the merge: a provided system prompt is appended to the
\* current one.
mergeConfigAppendsPrompt(cur, newConfig) ==
    JsonRoundTrip(
        [k \in Fields |->
            IF newConfig[k] = Undefined THEN cur[k]
            ELSE IF k = "systemPrompt" THEN cur[k] \o newConfig[k]
            ELSE newConfig[k]])

\* updateConfig, the merge: { ...this.config }, then each field of newConfig
\* that is !== undefined assigned over it, then the JSON round trip.
mergeConfig(cur, newConfig) ==
    JsonRoundTrip(
        [k \in Fields |-> IF newConfig[k] # Undefined THEN newConfig[k] ELSE cur[k]])

\* The provider that an adapter object talks to.
ProviderOf(a) == IF a.class = "ChatAnthropic" THEN "anthropic" ELSE "openai"

\* convertToLangChainMessages
convertToLangChainMessages(msgs) ==
    [i \in 1..Len(msgs) |->
        [type |-> IF msgs[i].role = "user" THEN "human"
                  ELSE IF msgs[i].role = "assistant" THEN "ai"
                  ELSE "system",
         content |-> msgs[i].content]]

\* A plausible slip: the system prompt is prepended whenever it is set.
preparedAlwaysPrepends(cfg, msgs) ==
    [input |-> IF Truthy(cfg.systemPrompt)
               THEN <<[type |-> "system", content |-> cfg.systemPrompt]>>
                       \o convertToLangChainMessages(msgs)
               ELSE convertToLangChainMessages(msgs),
     messages |-> msgs]

\* sendMessage up to the invoke. input: the sequence handed to the provider;
\* messages: the caller's array afterwards (map and spread build new arrays,
\* the argument is never written).
prepared(cfg, msgs) ==
    [input |-> IF Truthy(cfg.systemPrompt)
                  /\ ~(\E i \in 1..Len(msgs) : msgs[i].role = "system")
               THEN <<[type |-> "system", content |-> cfg.systemPrompt]>>
                       \o convertToLangChainMessages(msgs)
               ELSE convertToLangChainMessages(msgs),
     messages |-> msgs]

\* A plausible slip: the adapter is looked up again when the call settles.
servedByLive(call, live) == live

\* The adapter that serves a call: the receiver of this.model.invoke(...),
\* evaluated when the call is made, before the await.
servedBy(call, live) == call.model

\* A plausible slip: the catch block rebinds the adapter before rethrowing.
catchServiceRebinds(svc) ==
    [svc EXCEPT !.model = 1]

\* What the catch block of sendMessage does to the service's fields: nothing.
catchService(svc) == svc

\* The Error thrown by the catch block of sendMessage; the provider name is
\* read from this.config when the provider call fails.
failureMessage(cfg, message) ==
    "Failed to get response from " \o cfg.provider \o ": " \o message

RemoveAt(s, i) == SubSeq(s, 1, i - 1) \o SubSeq(s, i + 1, Len(s))

NoOutcome == [kind |-> "none", value |-> "", served |-> 0, started |-> 0, invokes |-> 0]

\* ------------------------------------------------------------- inputs
role(r, c) == [role |-> r, content |-> c]

\* The conversations a client passes to sendMessage.
Conversations ==
    {<<role("system", "Be brief."), role("user", "hi")>>,
     <<role("user", "hi"), role("assistant", "hello"), role("user", "bye")>>}

Replies == {"hello"}
ProviderErrors == {"401 unauthorized"}

NoFields == [k \in Fields |-> Undefined]

FieldValues ==
    [provider |-> {"anthropic", "openai"},
     model |-> {"claude-3-opus-20240229", "gpt-4-turbo"},
     apiKey |-> {"sk-user"},
     temperature |-> {"0"},
     maxTokens |-> {"256"},
     systemPrompt |-> {"Be terse.", ""},
     saveDirectory |-> {"/tmp/out"},
     saveFormat |-> {"json", "markdown"}]

\* A config with every field given, as the settings view passes it.
FullConfig ==
    [provider |-> "openai", model |-> "gpt-4o", apiKey |-> "sk-user",
     temperature |-> "0.7", maxTokens |-> "1000", systemPrompt |-> "Be terse.",
     saveDirectory |-> "./chats", saveFormat |-> "markdown"]

\* The partial configs a client passes to updateConfig: nothing, one field,
\* every field, or a number that is not finite.
Partials ==
    {NoFields, FullConfig, [NoFields EXCEPT !.temperature = "Infinity"]}
    \cup {[NoFields EXCEPT ![k] = v] : <<k, v>> \in
            UNION {{<<f, w>> : w \in FieldValues[f]} : f \in Fields}}

\* ------------------------------------------------------------- saveChat
\* A string as the sequence of the pieces it is made of.
RECURSIVE Concat(_)
Concat(pieces) ==
    IF pieces = <<>> THEN "" ELSE Head(pieces) \o Concat(Tail(pieces))

Millis == <<"000", "001", "002", "003", "004">>

\* new Date().toISOString() at instant t, cut at every ':' and '.'
toISOString(t) ==
    <<"2026-10-30T00", ":", "25", ":", "00", ".", Millis[t], "Z">>

\* new Date().toLocaleString() at instant t (to the second)
toLocaleString(t) == "10/30/2026, 12:25:00 AM"

\* .replace(/[:.]/g, '-') on a string cut at every ':' and '.'
replaceColonDot(pieces) ==
    [i \in 1..Len(pieces) |-> IF pieces[i] \in {":", "."} THEN "-" ELSE pieces[i]]

LowerCase == {"a", "b", "c", "d", "e", "h", "m", "o", "t"}
Digits == {"0", "1", "2", "3", "4", "5", "6", "7", "8", "9"}
UpperToLower == [A |-> "a", B |-> "b", C |-> "c", D |-> "d", E |-> "e", H |-> "h",
                 M |-> "m", O |-> "o", T |-> "t"]

\* .toLowerCase() of one character
toLowerCase(c) == IF c \in DOMAIN UpperToLower THEN UpperToLower[c] ELSE c

\* title.replace(/[^a-z0-9]/gi, '-').toLowerCase() on a string given as its
\* characters
slug(chars) ==
    [i \in 1..Len(chars) |->
        toLowerCase(IF chars[i] \in LowerCase \cup DOMAIN UpperToLower \cup Digits
                    THEN chars[i] ELSE "-")]

\* path.join(dir, name): the two joined by '/', a leading './' normalised away
pathJoin(dir, name) ==
    (IF dir = "./chats" THEN "chats" ELSE dir) \o "/" \o name

\* A plausible slip: the branch for the system role is missing.
markdownSectionSkipsSystem(msg) ==
    IF msg.role = "user" THEN "## User\n\n" \o msg.content \o "\n\n---\n\n"
    ELSE IF msg.role = "assistant" THEN "## Assistant\n\n" \o msg.content \o "\n\n---\n\n"
    ELSE ""

\* the markdown section of one message
markdownSection(msg) ==
    IF msg.role = "system" THEN "## System\n\n" \o msg.content \o "\n\n---\n\n"
    ELSE IF msg.role = "user" THEN "## User\n\n" \o msg.content \o "\n\n---\n\n"
    ELSE IF msg.role = "assistant" THEN "## Assistant\n\n" \o msg.content \o "\n\n---\n\n"
    ELSE ""

\* the markdown document
markdownContent(cfg, msgs, t) ==
    "# Chat - " \o toLocaleString(t) \o "\n\n"
    \o "**Model**: " \o cfg.model \o " (" \o cfg.provider \o ")\n\n"
    \o "---\n\n"
    \o Concat([i \in 1..Len(msgs) |-> markdownSection(msgs[i])])

\* chatData, the object JSON.stringify writes
chatData(cfg, msgs, t) ==
    [timestamp |-> Concat(toISOString(t)),
     model |-> cfg.model,
     provider |-> cfg.provider,
     messages |-> msgs]

\* A plausible slip: markdown is the fallback, json the recognized value.
formatToUseUnlessJson(cfg) == IF cfg.saveFormat = "json" THEN "json" ELSE "markdown"

formatToUse(cfg) == IF cfg.saveFormat = "markdown" THEN "markdown" ELSE "json"

fileExtension(cfg) == IF formatToUse(cfg) = "markdown" THEN "md" ELSE "json"

\* A title is given as its characters; no title (undefined) is <<>>, which is
\* as falsy as the empty string.
filename(cfg, title, t) ==
    IF title # <<>>
    THEN Concat(replaceColonDot(toISOString(t))) \o "-" \o Concat(slug(title))
            \o "." \o fileExtension(cfg)
    ELSE Concat(replaceColonDot(toISOString(t))) \o "-chat." \o fileExtension(cfg)

saveDir(cfg, e) == Or(cfg.saveDirectory, Or(e.CHAT_SAVE_DIRECTORY, "./chats"))

filePath(cfg, e, title, t) == pathJoin(saveDir(cfg, e), filename(cfg, title, t))

\* The filesystem's error messages (Node's), and the Error saveChat throws.
\* A message is kept as the pieces it is made of; Concat gives the string.
mkdirError(dir) == <<"EACCES: permission denied, mkdir '", dir, "'">>
writeError(path) == <<"EACCES: permission denied, open '", path, "'">>
diskFullError == <<"ENOSPC: no space left on device, write">>
saveFailure(message) == <<"Failed to save chat: ">> \o message

\* ------------------------------------------------------------- inputs to saveChat
NoTitle == <<>>
Titles == {NoTitle, <<"D", "e", "m", "o">>}
SavedConversations == {<<role("user", "hi"), role("assistant", "hello")>>}
\* What the filesystem does to a save: nothing, mkdirSync fails, writeFileSync
\* fails to open the file, writeFileSync opens it and fails to write.
FsFaults == {"none", "mkdir", "write", "full"}

\* ------------------------------------------------------------- the shell's state
\* useState(null) of saveStatus; timer: the setTimeout callbacks that clear it
\* and are pending (they are never cancelled).
NoStatus == [text |-> Null, timer |-> 0]

\* The settings view is not mounted.
NoForm ==
    [provider |-> "", model |-> "", apiKey |-> "", temperature |-> "",
     maxTokens |-> "", systemPrompt |-> "", saveFormat |-> ""]

\* ------------------------------------------------------------- actions
Init ==
    /\ env \in Envs
    /\ heap = <<defaultConfig(env)>>
    /\ config = 1
    /\ adapters = <<constructModel(defaultConfig(env), env)>>
    /\ model = 1
    /\ inflight = <<>>
    /\ outcome = NoOutcome
    /\ lastCall = [op |-> "new", arg |-> NoFields, config |-> 1, model |-> 1]
    /\ calls = 0
    /\ snap = 0
    /\ passed = 0
    /\ now = 1
    /\ dirs = {}
    /\ files = <<>>
    /\ saved = <<>>
    /\ view = "chat"
    /\ messages = <<>>
    /\ isLoading = FALSE
    /\ saveStatus = NoStatus
    /\ form = NoForm
    /\ currentField = "provider"
    /\ highlightedIndex = 1
    /\ arrows = 0

\* A plausible slip: the fields are assigned to this.config itself.
updatedInPlace(svc, newConfig, e) ==
    LET merged == mergeConfig(svc.heap[svc.config], newConfig)
    IN [heap |-> [svc.heap EXCEPT ![svc.config] = merged],
        config |-> svc.config,
        adapters |-> Append(svc.adapters, recreateModel(merged, e)),
        model |-> Len(svc.adapters) + 1]

\* The service's objects after updateConfig(newConfig): a new config object
\* becomes this.config and a new adapter becomes this.model.
updated(svc, newConfig, e) ==
    LET merged == mergeConfig(svc.heap[svc.config], newConfig)
    IN [heap |-> Append(svc.heap, merged),
        config |-> Len(svc.heap) + 1,
        adapters |-> Append(svc.adapters, recreateModel(merged, e)),
        model |-> Len(svc.adapters) + 1]

Service == [heap |-> heap, config |-> config, adapters |-> adapters, model |-> model]

\* A call as the client makes it: the operation, its argument, and the config
\* object and adapter that were live when it was made.
Call(op, arg) == [op |-> op, arg |-> arg, config |-> config, model |-> model]

\* llmService.updateConfig(newConfig)
updateConfig(newConfig) ==
    LET svc == updated(Service, newConfig, env)
    IN /\ heap' = svc.heap
       /\ config' = svc.config
       /\ adapters' = svc.adapters
       /\ model' = svc.model
       /\ lastCall' = Call("updateConfig", newConfig)
       /\ calls' = calls + 1
       /\ UNCHANGED <<env, inflight, outcome, snap, passed>>

\* llmService.sendMessage(messages), up to the await of this.model.invoke(...);
\* owner is the caller that awaits the result.
sendMessage(msgs, owner) ==
    /\ inflight' = Append(inflight,
            [model |-> model,
             input |-> prepared(LiveConfig, msgs).input,
             messages |-> prepared(LiveConfig, msgs).messages,
             arg |-> msgs,
             config |-> config,
             invokes |-> 1,
             owner |-> owner])
    /\ lastCall' = Call("sendMessage", NoFields)
    /\ calls' = calls + 1
    /\ UNCHANGED <<env, heap, config, adapters, model, outcome, snap, passed>>

\* The provider answers the i-th pending call: sendMessage returns
\* response.content.toString().
sendMessageReturns(i, text) ==
    /\ i \in 1..Len(inflight)
    /\ inflight' = RemoveAt(inflight, i)
    /\ outcome' = [kind |-> "return", value |-> text,
                   served |-> servedBy(inflight[i], model),
                   started |-> inflight[i].config,
                   invokes |-> inflight[i].invokes]
    /\ UNCHANGED <<env, heap, config, adapters, model, lastCall, calls, snap, passed>>

\* The provider call of the i-th pending call fails: the catch block wraps the
\* error and throws.
sendMessageThrows(i, message) ==
    /\ i \in 1..Len(inflight)
    /\ inflight' = RemoveAt(inflight, i)
    /\ outcome' = [kind |-> "throw", value |-> failureMessage(LiveConfig, message),
                   served |-> servedBy(inflight[i], model),
                   started |-> inflight[i].config,
                   invokes |-> inflight[i].invokes]
    /\ LET svc == catchService([config |-> config, model |-> model])
       IN /\ config' = svc.config
          /\ model' = svc.model
    /\ UNCHANGED <<env, heap, adapters, lastCall, calls, snap, passed>>

\* llmService.saveChat(messages, title); fault is what the filesystem does.
\* The clock is read twice: new Date() for the file name, and new Date() again
\* for the timestamp (or the title line) inside the file, at the same instant
\* or a later one; a save that fails at mkdir reads it not at all.
\* Each entry of saved keeps the call (its arguments, the two instants, the
\* config that was live) with its result.
saveChat(msgs, title, fault) ==
  \E later \in now..MaxClock :
    LET cfg == LiveConfig
        dir == saveDir(cfg, env)
        path == filePath(cfg, env, title, now)
        content == IF formatToUse(cfg) = "markdown"
                   THEN [format |-> "markdown", text |-> markdownContent(cfg, msgs, later)]
                   ELSE [format |-> "json",
                         data |-> JsonRoundTrip(chatData(cfg, msgs, later))]
        error == IF fault = "mkdir" THEN saveFailure(mkdirError(dir))
                 ELSE IF fault = "write" THEN saveFailure(writeError(path))
                 ELSE IF fault = "full" THEN saveFailure(diskFullError)
                 ELSE <<>>
        result == [kind |-> IF fault = "none" THEN "return" ELSE "throw",
                   value |-> IF fault = "none" THEN path ELSE Concat(error),
                   path |-> path,
                   error |-> error,
                   arg |-> msgs,
                   title |-> title,
                   at |-> now,
                   stamped |-> later,
                   config |-> config,
                   fault |-> fault]
    IN /\ fault = "mkdir" => (dir \notin dirs /\ later = now)
       /\ now' = later
       /\ lastCall' = Call("saveChat", NoFields)
       /\ calls' = calls + 1
       /\ saved' = Append(saved, result)
       /\ dirs' = IF fault = "mkdir" THEN dirs ELSE dirs \cup {dir}
       /\ files' = IF fault \in {"mkdir", "write"} THEN files
                   ELSE [p \in DOMAIN files \cup {path} |->
                            IF p # path THEN files[p]
                            ELSE IF fault = "full" THEN [format |-> "truncated"]
                            ELSE content]
       /\ UNCHANGED <<env, heap, config, adapters, model, inflight, outcome, snap, passed>>

\* llmService.getConfig(): the client keeps what it returns, this.config.
getConfig ==
    /\ snap' = config
    /\ lastCall' = Call("getConfig", NoFields)
    /\ calls' = calls + 1
    /\ UNCHANGED <<env, heap, config, adapters, model, inflight, outcome, passed>>

\* The client assigns to a field of the object getConfig returned.
assignSnapshot(k, v) ==
    /\ snap # 0
    /\ heap' = [heap EXCEPT ![snap][k] = v]
    /\ lastCall' = Call("assign", [NoFields EXCEPT ![k] = v])
    /\ calls' = calls + 1
    /\ UNCHANGED <<env, config, adapters, model, inflight, outcome, snap, passed>>

\* The client builds the object newConfig, calls updateConfig with it and keeps
\* it; updateConfig reads its fields.
updateConfigHeld(newConfig) ==
    LET ref == Len(heap) + 1
        svc == updated([Service EXCEPT !.heap = Append(heap, newConfig)], newConfig, env)
    IN /\ heap' = svc.heap
       /\ config' = svc.config
       /\ adapters' = svc.adapters
       /\ model' = svc.model
       /\ passed' = ref
       /\ lastCall' = Call("updateConfig", newConfig)
       /\ calls' = calls + 1
       /\ UNCHANGED <<env, inflight, outcome, snap>>

\* The client assigns to a field of the object it passed to updateConfig.
assignPartial(k, v) ==
    /\ passed # 0
    /\ heap' = [heap EXCEPT ![passed][k] = v]
    /\ lastCall' = Call("assignArg", [NoFields EXCEPT ![k] = v])
    /\ calls' = calls + 1
    /\ UNCHANGED <<env, config, adapters, model, inflight, outcome, snap, passed>>

\* Time passes.
Tick ==
    /\ now < MaxClock
    /\ now' = now + 1
    /\ UNCHANGED <<svcVars, dirs, files, saved, uiVars>>

\* ------------------------------------------------------------- the service under any client
UpdateConfig ==
    /\ calls < MaxCalls
    /\ \E p \in Partials : updateConfig(p)
    /\ UNCHANGED <<fsVars, uiVars>>

SendStart ==
    /\ calls < MaxCalls
    /\ \E c \in Conversations : sendMessage(c, 0)
    /\ UNCHANGED <<fsVars, uiVars>>

SendResolve ==
    /\ \E i \in 1..Len(inflight), t \in Replies : sendMessageReturns(i, t)
    /\ UNCHANGED <<fsVars, uiVars>>

SendFail ==
    /\ \E i \in 1..Len(inflight), m \in ProviderErrors : sendMessageThrows(i, m)
    /\ UNCHANGED <<fsVars, uiVars>>

SaveChat ==
    /\ calls < MaxCalls
    /\ \E c \in SavedConversations, fault \in FsFaults : saveChat(c, NoTitle, fault)
    /\ UNCHANGED uiVars

Next ==
    \/ UpdateConfig
    \/ SendStart
    \/ SendResolve
    \/ SendFail
    \/ SaveChat

Spec == Init /\ [][Next]_vars

\* The same client, which also keeps and assigns to what getConfig returns.
GetConfig ==
    /\ calls < MaxCalls
    /\ getConfig
    /\ UNCHANGED <<fsVars, uiVars>>

AssignSnapshot ==
    /\ calls < MaxCalls
    /\ \E k \in {"provider", "temperature", "systemPrompt"} :
          \E v \in FieldValues[k] : assignSnapshot(k, v)
    /\ UNCHANGED <<fsVars, uiVars>>

\* The partial configs a client builds as an object that it keeps.
HeldPartials ==
    {FullConfig, [NoFields EXCEPT !.provider = "openai"]}

UpdateConfigHeld ==
    /\ calls < MaxCalls
    /\ \E p \in HeldPartials : updateConfigHeld(p)
    /\ UNCHANGED <<fsVars, uiVars>>

AssignPartial ==
    /\ calls < MaxCalls
    /\ \E k \in {"provider", "temperature", "systemPrompt"} :
          \E v \in FieldValues[k] : assignPartial(k, v)
    /\ UNCHANGED <<fsVars, uiVars>>

NextAlias ==
    \/ UpdateConfig
    \/ SendStart
    \/ SendResolve
    \/ SendFail
    \/ GetConfig
    \/ AssignSnapshot
    \/ UpdateConfigHeld
    \/ AssignPartial

SpecAlias == Init /\ [][NextAlias]_vars

\* ------------------------------------------------------------- the persister under any client
\* The configs a client constructs the service with: the default one, and one
\* that leaves the optional saveDirectory and saveFormat out.
ConstructorConfigs(e) ==
    {defaultConfig(e),
     [defaultConfig(e) EXCEPT !.saveDirectory = Undefined, !.saveFormat = Undefined]}

\* new LLMService(config)
InitSave ==
    /\ env \in Envs
    /\ \E c \in ConstructorConfigs(env) :
          /\ heap = <<c>>
          /\ adapters = <<constructModel(c, env)>>
    /\ config = 1
    /\ model = 1
    /\ inflight = <<>>
    /\ outcome = NoOutcome
    /\ lastCall = [op |-> "new", arg |-> NoFields, config |-> 1, model |-> 1]
    /\ calls = 0
    /\ snap = 0
    /\ passed = 0
    /\ now = 1
    /\ dirs = {}
    /\ files = <<>>
    /\ saved = <<>>
    /\ view = "chat"
    /\ messages = <<>>
    /\ isLoading = FALSE
    /\ saveStatus = NoStatus
    /\ form = NoForm
    /\ currentField = "provider"
    /\ highlightedIndex = 1
    /\ arrows = 0

\* The partial configs that matter to a save: a save format (one of them
\* unrecognized), a save directory, another provider and model.
SavePartials ==
    {[NoFields EXCEPT !.saveFormat = f] : f \in {"json", "markdown", "yaml"}}
    \cup {[NoFields EXCEPT !.saveDirectory = "/tmp/out"], FullConfig}

\* The saves a client makes: the conversation, the title, and what the
\* filesystem does.
SaveInputs ==
    LET c1 == <<role("system", "Be brief."), role("user", "hi")>>
        c2 == <<role("user", "hi"), role("assistant", "hello"), role("user", "bye")>>
    IN {<<c1, NoTitle, "none">>,
        <<c2, <<"D", "e", "m", "o">>, "none">>,
        <<c1, <<"d", "e", " ", "M", "0">>, "none">>,
        <<c2, NoTitle, "mkdir">>,
        <<c1, <<"D", "e", "m", "o">>, "write">>,
        <<c2, NoTitle, "full">>}

UpdateConfigSave ==
    /\ calls < MaxCalls
    /\ \E p \in SavePartials : updateConfig(p)
    /\ UNCHANGED <<fsVars, uiVars>>

SaveChatAny ==
    /\ calls < MaxCalls
    /\ \E in \in SaveInputs : saveChat(in[1], in[2], in[3])
    /\ UNCHANGED uiVars

NextSave ==
    \/ UpdateConfigSave
    \/ SaveChatAny
    \/ Tick

SpecSave == InitSave /\ [][NextSave]_vars

\* ------------------------------------------------------------- the shell
\* The order of the fields of the settings view.
FieldOrder ==
    <<"provider", "model", "apiKey", "temperature", "maxTokens", "systemPrompt",
      "saveFormat">>

TextFields == {"apiKey", "temperature", "maxTokens", "systemPrompt"}

\* items={['anthropic', 'openai']} of the provider list
ProviderItems == <<"anthropic", "openai">>

\* What the user types into the message line and into the text fields.
MessageTexts == {"hi", " "}
TypedText ==
    [apiKey |-> {"", "sk-user"},
     temperature |-> {"0", "0.5", "abc"},
     maxTokens |-> {"256", "abc"},
     systemPrompt |-> {""}]

NumberLiterals == {"0", "0.5", "0.7", "256", "1000"}

\* value.trim() of what the user types
trim(value) == IF value = " " THEN "" ELSE value

\* Number.prototype.toString of a number held as its literal
numberToString(n) == n

\* parseFloat of what the user types
parseFloat(text) == IF text \in NumberLiterals THEN text ELSE "NaN"

\* parseInt of what the user types: the integer part
parseInt(text) ==
    IF text \in {"0.5", "0.7"} THEN "0"
    ELSE IF text \in NumberLiterals THEN text
    ELSE "NaN"

\* items.findIndex(item => item === value), counted from 1 (0: not found)
findIndex(items, value) ==
    IF value \in Range(items)
    THEN CHOOSE i \in 1..Len(items) :
            items[i] = value /\ \A j \in 1..(i - 1) : items[j] # value
    ELSE 0

\* SelectInput at mount and after its value changes: the highlighted item
initialIndex(items, value) ==
    IF findIndex(items, value) = 0 THEN 1 ELSE findIndex(items, value)

\* The field after f in the settings view.
nextField(f) == FieldOrder[findIndex(FieldOrder, f) + 1]

\* useEffect on [provider]: a model that is not in the provider's list is
\* replaced by the first of the list.
modelFor(provider, m) ==
    IF m \in Range(availableModels[provider]) THEN m ELSE availableModels[provider][1]

\* SettingsInterface at mount: the form as initialised from getConfig().
mountedForm(cfg) ==
    [provider |-> cfg.provider,
     model |-> modelFor(cfg.provider, cfg.model),
     apiKey |-> Or(cfg.apiKey, ""),
     temperature |-> numberToString(cfg.temperature),
     maxTokens |-> numberToString(cfg.maxTokens),
     systemPrompt |-> Or(cfg.systemPrompt, "You are a helpful AI assistant."),
     saveFormat |-> Or(cfg.saveFormat, "json")]

\* A plausible slip: the parsed numbers are passed on without their fallbacks.
newConfigNoFallback(f, cfg) ==
    JsonRoundTrip(
        [provider |-> f.provider,
         model |-> f.model,
         apiKey |-> Or(f.apiKey, Undefined),
         temperature |-> parseFloat(f.temperature),
         maxTokens |-> parseInt(f.maxTokens),
         systemPrompt |-> Or(f.systemPrompt, Undefined),
         saveDirectory |-> cfg.saveDirectory,
         saveFormat |-> f.saveFormat])

\* saveSettings: the object handed to updateConfig, after its JSON round trip.
newConfig(f, cfg) ==
    JsonRoundTrip(
        [provider |-> f.provider,
         model |-> f.model,
         apiKey |-> Or(f.apiKey, Undefined),
         temperature |-> Or(parseFloat(f.temperature), "0.7"),
         maxTokens |-> Or(parseInt(f.maxTokens), "1000"),
         systemPrompt |-> Or(f.systemPrompt, Undefined),
         saveDirectory |-> cfg.saveDirectory,
         saveFormat |-> f.saveFormat])

\* saveSettings() run n times by the handlers of one key press: each run reads
\* the live config and calls llmService.updateConfig.
RECURSIVE saveSettings(_, _)
saveSettings(svc, n) ==
    IF n = 0 THEN svc
    ELSE saveSettings(updated(svc, newConfig(form, svc.heap[svc.config]), env), n - 1)

\* The service's variables after n runs of saveSettings (n >= 1).
settingsSaved(n) ==
    LET before == saveSettings(Service, n - 1)
        after == saveSettings(Service, n)
    IN /\ heap' = after.heap
       /\ config' = after.config
       /\ adapters' = after.adapters
       /\ model' = after.model
       /\ lastCall' = [op |-> "updateConfig",
                       arg |-> newConfig(form, before.heap[before.config]),
                       config |-> before.config,
                       model |-> before.model,
                       typed |-> [apiKey |-> form.apiKey,
                                  temperature |-> form.temperature,
                                  maxTokens |-> form.maxTokens]]
       /\ calls' = calls + n
       /\ UNCHANGED <<env, inflight, outcome, snap, passed>>

\* ChatInterface mounts: useState([]), useState(false), useState(null).
chatMounts ==
    /\ messages' = <<>>
    /\ isLoading' = FALSE
    /\ saveStatus' = NoStatus

\* SettingsInterface unmounts.
settingsUnmounts ==
    /\ form' = NoForm
    /\ currentField' = "provider"
    /\ highlightedIndex' = 1

\* Tab in the chat view: App shows the settings view.  ChatInterface unmounts,
\* its state is dropped, and the sends it awaits settle without an owner.
\* The user opens the settings view only while the run has a call left.
TabInChat ==
    /\ view = "chat"
    /\ calls < MaxAppCalls
    /\ view' = "settings"
    /\ chatMounts
    /\ inflight' = [i \in 1..Len(inflight) |-> [inflight[i] EXCEPT !.owner = 0]]
    /\ form' = mountedForm(LiveConfig)
    /\ currentField' = "provider"
    /\ highlightedIndex' = initialIndex(ProviderItems, LiveConfig.provider)
    /\ UNCHANGED <<env, heap, config, adapters, model, outcome, lastCall, calls, snap, passed, fsVars>>
    /\ UNCHANGED arrows

\* Tab in the settings view: the settings handler moves to the next field, or
\* on the last field saves; App's handler shows the chat view.
TabInSettings ==
    /\ view = "settings"
    /\ IF currentField = "saveFormat"
       THEN /\ calls + 1 <= MaxAppCalls
            /\ settingsSaved(1)
       ELSE UNCHANGED svcVars
    /\ view' = "chat"
    /\ settingsUnmounts
    /\ chatMounts
    /\ UNCHANGED fsVars
    /\ UNCHANGED arrows

\* Enter in the settings view on a list: SelectInput selects the highlighted
\* item and the next field gets the focus.
EnterOnList ==
    /\ view = "settings"
    /\ currentField \in {"provider", "model"}
    /\ IF currentField = "provider"
       THEN LET selectedValue == ProviderItems[highlightedIndex]
                m == modelFor(selectedValue, form.model)
            IN /\ form' = [form EXCEPT !.provider = selectedValue, !.model = m]
               /\ highlightedIndex' = initialIndex(availableModels[selectedValue], m)
       ELSE /\ form' = [form EXCEPT !.model = availableModels[form.provider][highlightedIndex]]
            /\ highlightedIndex' = 1
    /\ currentField' = nextField(currentField)
    /\ UNCHANGED <<svcVars, fsVars, view, chatVars>>
    /\ UNCHANGED arrows

\* Enter in the settings view on a text field: the next field gets the focus.
EnterOnText ==
    /\ view = "settings"
    /\ currentField \in TextFields
    /\ currentField' = nextField(currentField)
    /\ UNCHANGED <<svcVars, fsVars, view, chatVars, form, highlightedIndex>>
    /\ UNCHANGED arrows

\* Enter in the settings view on the last field: the navigation handler and
\* the format handler both run saveSettings.
EnterOnSaveFormat ==
    /\ view = "settings"
    /\ currentField = "saveFormat"
    /\ calls + 2 <= MaxAppCalls
    /\ settingsSaved(2)
    /\ view' = "chat"
    /\ settingsUnmounts
    /\ chatMounts
    /\ UNCHANGED fsVars
    /\ UNCHANGED arrows

\* An arrow key in the settings view: the highlight of a list moves and wraps;
\* on the last field the format toggles.
Arrow(up) ==
    /\ view = "settings"
    /\ arrows < MaxArrows
    /\ arrows' = arrows + 1
    /\ currentField \notin TextFields
    /\ IF currentField = "saveFormat"
       THEN /\ form' = [form EXCEPT !.saveFormat = IF @ = "json" THEN "markdown" ELSE "json"]
            /\ UNCHANGED highlightedIndex
       ELSE LET n == IF currentField = "provider" THEN Len(ProviderItems)
                     ELSE Len(availableModels[form.provider])
            IN /\ highlightedIndex' =
                    IF up THEN (IF highlightedIndex > 1 THEN highlightedIndex - 1 ELSE n)
                    ELSE (IF highlightedIndex < n THEN highlightedIndex + 1 ELSE 1)
               /\ UNCHANGED form
    /\ UNCHANGED <<svcVars, fsVars, view, chatVars, currentField>>

ArrowKey == \E up \in BOOLEAN : Arrow(up)

\* The user edits the text field that has the focus.
TypeText ==
    /\ view = "settings"
    /\ currentField \in TextFields
    /\ \E text \in TypedText[currentField] : form' = [form EXCEPT ![currentField] = text]
    /\ UNCHANGED <<svcVars, fsVars, view, chatVars, currentField, highlightedIndex>>
    /\ UNCHANGED arrows

\* handleSubmit(value) of ChatInterface, up to the await.
handleSubmit(value) ==
    LET userMessage == role("user", value)
    IN IF trim(value) = ""
       THEN UNCHANGED <<svcVars, chatVars>>
       ELSE /\ calls + 1 <= MaxAppCalls
            /\ messages' = Append(messages, userMessage)
            /\ isLoading' = TRUE
            /\ sendMessage(Append(messages, userMessage), 1)
            /\ UNCHANGED saveStatus

\* Enter in the chat view: the message line is submitted.
Submit ==
    /\ view = "chat"
    /\ \E value \in MessageTexts : handleSubmit(value)
    /\ UNCHANGED <<fsVars, view, settingsVars>>
    /\ UNCHANGED arrows

\* handleSubmit after the await: what the mounted ChatInterface does when the
\* send it awaits settles; replied says whether there is a response.
settled(call, replied, response) ==
    IF call.owner = 1
    THEN /\ messages' = IF replied THEN Append(messages, role("assistant", response))
                        ELSE messages
         /\ isLoading' = FALSE
         /\ UNCHANGED saveStatus
    ELSE UNCHANGED chatVars

ReplyArrives ==
    /\ \E i \in 1..Len(inflight), t \in Replies :
          /\ sendMessageReturns(i, t)
          /\ settled(inflight[i], TRUE, t)
    /\ UNCHANGED <<fsVars, view, settingsVars>>
    /\ UNCHANGED arrows

ReplyFails ==
    /\ \E i \in 1..Len(inflight), m \in ProviderErrors :
          /\ sendMessageThrows(i, m)
          /\ settled(inflight[i], FALSE, "")
    /\ UNCHANGED <<fsVars, view, settingsVars>>
    /\ UNCHANGED arrows

\* Ctrl+S in the chat view.
CtrlS ==
    /\ view = "chat"
    /\ IF Len(messages) > 0
       THEN /\ calls + 1 <= MaxAppCalls
            /\ \E fault \in FsFaults : saveChat(messages, NoTitle, fault)
            /\ LET result == saved'[Len(saved')]
               IN saveStatus' =
                    IF result.kind = "return"
                    THEN [text |-> "Chat saved to: " \o result.value,
                          timer |-> saveStatus.timer + 1]
                    ELSE [text |-> "Error saving chat: " \o result.value,
                          timer |-> saveStatus.timer]
       ELSE /\ saveStatus.timer < MaxTimers
            /\ saveStatus' = [text |-> "No messages to save",
                              timer |-> saveStatus.timer + 1]
            /\ UNCHANGED <<svcVars, fsVars>>
    /\ UNCHANGED <<messages, isLoading, view, settingsVars>>
    /\ UNCHANGED arrows

\* A timer set by Ctrl+S fires: the status line is cleared, whatever it shows.
StatusTimer ==
    /\ saveStatus.timer > 0
    /\ saveStatus' = [text |-> Null, timer |-> saveStatus.timer - 1]
    /\ UNCHANGED <<svcVars, fsVars, view, messages, isLoading, settingsVars>>
    /\ UNCHANGED arrows

NextApp ==
    \/ TabInChat
    \/ TabInSettings
    \/ EnterOnList
    \/ EnterOnText
    \/ EnterOnSaveFormat
    \/ ArrowKey
    \/ TypeText
    \/ Submit
    \/ ReplyArrives
    \/ ReplyFails
    \/ CtrlS
    \/ StatusTimer

SpecApp == Init /\ [][NextApp]_vars

\* ------------------------------------------------------------- the settings view on its own
\* The configs the settings view opens on: the default one, and one as an
\* earlier settings save leaves it.
SettingsConfigs(e) ==
    {defaultConfig(e),
     [defaultConfig(e) EXCEPT !.apiKey = "sk-user", !.temperature = "0.5",
                              !.maxTokens = "256"]}

InitSettings ==
    /\ env \in Envs
    /\ \E c \in SettingsConfigs(env) :
          /\ heap = <<c>>
          /\ adapters = <<constructModel(c, env)>>
    /\ config = 1
    /\ model = 1
    /\ inflight = <<>>
    /\ outcome = NoOutcome
    /\ lastCall = [op |-> "new", arg |-> NoFields, config |-> 1, model |-> 1]
    /\ calls = 0
    /\ snap = 0
    /\ passed = 0
    /\ now = 1
    /\ dirs = {}
    /\ files = <<>>
    /\ saved = <<>>
    /\ view = "chat"
    /\ messages = <<>>
    /\ isLoading = FALSE
    /\ saveStatus = NoStatus
    /\ form = NoForm
    /\ currentField = "provider"
    /\ highlightedIndex = 1
    /\ arrows = 0

\* The run goes on while a settings save is left.
SettingsOpen == Len(heap) <= MaxSettingsSaves

NextSettings ==
    \/ SettingsOpen /\ TabInChat
    \/ SettingsOpen /\ TabInSettings
    \/ SettingsOpen /\ EnterOnList
    \/ SettingsOpen /\ EnterOnText
    \/ SettingsOpen /\ EnterOnSaveFormat
    \/ SettingsOpen /\ ArrowKey
    \/ SettingsOpen /\ TypeText

SpecSettings == InitSettings /\ [][NextSettings]_vars

\* ------------------------------------------------------------- the claims
\* The credential an adapter of provider p gets when the config gives none.
EnvKey(p) == IF p = "anthropic" THEN env.ANTHROPIC_API_KEY ELSE env.OPENAI_API_KEY

\* The config object that was live before the updateConfig made last.
ConfigBefore == heap[lastCall.config]

\* C1: after construction and after any sequence of updateConfig, sendMessage
\* and saveChat calls, the bound adapter is the one built from the provider,
\* model, credential, temperature and maxTokens of the live config.
C1_AdapterMatchesLiveConfig ==
    LET a == adapters[model]
        c == LiveConfig
    IN /\ ProviderOf(a) = c.provider
       /\ a.modelName = c.model
       /\ a.apiKey = (IF c.apiKey \in {Undefined, ""} THEN EnvKey(c.provider) ELSE c.apiKey)
       /\ a.temperature = c.temperature
       /\ a.maxTokens = c.maxTokens

\* C1's case: an updateConfig, a sendMessage and a saveChat were made, and the
\* live config differs from the constructor's in a binding field.
C1_Witness ==
    /\ Len(heap) > 1
    /\ outcome.kind # "none"
    /\ saved # <<>>
    /\ \E k \in BindingFields : LiveConfig[k] # heap[1][k]

\* C2: a call in flight is served by the adapter that was bound when it
\* started, and carries the system prompt of the config that was live then,
\* whatever updateConfig does meanwhile; a call started after an updateConfig
\* is bound to the rebuilt adapter. (The k-th config object and the k-th
\* adapter are allocated together.)
C2_InFlightKeepsItsAdapter ==
    /\ \A i \in 1..Len(inflight) :
          LET r == inflight[i]
          IN /\ r.model = r.config
             /\ Len(r.input) > Len(r.arg) => r.input[1].content = heap[r.config].systemPrompt
    /\ outcome.kind # "none" => outcome.served = outcome.started

\* C2's case: a call that started before an updateConfig has been answered by
\* the old adapter, and a call started after it is in flight on the new one.
C2_Witness ==
    /\ outcome.kind = "return"
    /\ outcome.served # model
    /\ \E i \in 1..Len(inflight) : inflight[i].model = model

\* C3: assigning to a field of the object getConfig returned never changes
\* the live config.
C3_SnapshotIsReadOnly ==
    [][lastCall'.op = "assign" /\ calls' = calls + 1 => heap'[config'] = heap[config]]_vars

\* C4: the live config's model is always in the registry list of the live
\* config's provider, and an updateConfig that switches to a provider whose
\* list lacks the current model leaves the first entry of that list as model.
C4_ModelFollowsProvider ==
    /\ LiveConfig.model \in Range(availableModels[LiveConfig.provider])
    /\ (/\ lastCall.op = "updateConfig"
        /\ LiveConfig.provider # ConfigBefore.provider
        /\ ConfigBefore.model \notin Range(availableModels[LiveConfig.provider]))
       => LiveConfig.model = availableModels[LiveConfig.provider][1]

\* The langchain type a role is sent as.
TypeOf(r) == [user |-> "human", assistant |-> "ai", system |-> "system"][r]

\* s is the conversation C as the provider gets it: same length and order,
\* contents verbatim, roles as their langchain types.
SentAs(s, C) ==
    /\ Len(s) = Len(C)
    /\ \A i \in 1..Len(C) : s[i].content = C[i].content /\ s[i].type = TypeOf(C[i].role)

\* C5: for a conversation C, when the live config has a system prompt and C
\* has no system message the provider gets [system(prompt)] followed by C,
\* otherwise exactly C; the caller's C is unchanged by the call.
C5_SystemPromptPrepended ==
    \A i \in 1..Len(inflight) :
        LET r == inflight[i]
            C == r.arg
            prompt == heap[r.config].systemPrompt
        IN /\ IF prompt \notin {Undefined, ""} /\ (\A j \in 1..Len(C) : C[j].role # "system")
              THEN /\ r.input # <<>>
                   /\ Head(r.input) = [type |-> "system", content |-> prompt]
                   /\ SentAs(Tail(r.input), C)
              ELSE SentAs(r.input, C)
           /\ r.messages = C

\* C5's case: one call in flight got the prompt prepended and another, whose
\* conversation has a system message, did not.
C5_Witness ==
    /\ \E i \in 1..Len(inflight) : Len(inflight[i].input) = Len(inflight[i].arg) + 1
    /\ \E i \in 1..Len(inflight) :
          /\ Len(inflight[i].input) = Len(inflight[i].arg)
          /\ heap[inflight[i].config].systemPrompt \notin {Undefined, ""}

BindingUntouched ==
    /\ lastCall.op = "updateConfig"
    /\ \A k \in BindingFields : LiveConfig[k] = ConfigBefore[k]

\* C7: an updateConfig that changes only systemPrompt, saveDirectory
\* or saveFormat leaves the same adapter instance bound.
C7_NoRebuildForOrthogonalFields ==
    BindingUntouched => model = lastCall.model

\* C8: a step of sendMessage, its start and its failure alike, leaves the live
\* config and the bound adapter as they were; a failed sendMessage invoked the
\* provider once; after a failure updateConfig, sendMessage and saveChat can
\* still be called (while the client has calls left).
C8_FailedSendLeavesServiceUsable ==
    /\ [][Len(inflight') # Len(inflight) =>
            /\ config' = config /\ heap' = heap
            /\ model' = model /\ adapters' = adapters]_vars
    /\ [](outcome.kind = "throw" => outcome.invokes = 1)
    /\ [](outcome.kind = "throw" /\ calls < MaxCalls =>
            ENABLED UpdateConfig /\ ENABLED SendStart /\ ENABLED SaveChat)

\* C8's case: a sendMessage failed after an updateConfig had replaced the
\* constructor's config and adapter.
C8_Witness ==
    /\ outcome.kind = "throw"
    /\ model > 1
    /\ LiveConfig # heap[1]

\* C9: the error a failed sendMessage throws names the provider that served
\* the call and carries the underlying message.
C9_ErrorNamesServingProvider ==
    outcome.kind = "throw" =>
        \E m \in ProviderErrors :
            outcome.value = "Failed to get response from "
                               \o ProviderOf(adapters[outcome.served]) \o ": " \o m

\* C10: across every action of the interface (submitting, toggling the settings
\* view, saving settings, saving the transcript, the arrival of a reply) the
\* conversation only grows: every message keeps its position and no message
\* is removed.
C10_ConversationAppendOnly ==
    [][\A i \in 1..Len(messages) :
          /\ i <= Len(messages')
          /\ messages'[i] = messages[i]]_vars

\* C11: at most one sendMessage is in flight at a time: the shell never starts
\* a second send before the previous one has resolved or failed.
C11_OneSendInFlight == Len(inflight) <= 1

\* C12: updateConfig makes a new object the live config: every object that
\* existed before the call, the config that was live among them, keeps its
\* field values, and the live config is neither one of them nor the object the
\* caller passed; assigning to the passed object afterwards leaves the live
\* config as it was.
C12_UpdateConfigIsIndependent ==
    [][/\ (lastCall'.op = "updateConfig" /\ calls' = calls + 1) =>
            /\ \A r \in 1..Len(heap) : heap'[r] = heap[r]
            /\ config' \notin 1..Len(heap)
            /\ config' # passed'
       /\ (lastCall'.op = "assignArg" /\ calls' = calls + 1) =>
            heap'[config'] = heap[config]]_vars

\* C12's case: the client holds a config that an updateConfig has replaced,
\* and has assigned to a field of the object it passed to that updateConfig.
C12_Witness ==
    /\ snap # 0 /\ snap # config /\ heap[snap] # LiveConfig
    /\ passed # 0
    /\ lastCall.op = "assignArg"
    /\ \E k \in Fields : lastCall.arg[k] # Undefined /\ LiveConfig[k] # heap[passed][k]

\* C13: updateConfig(p) made twice in a row leaves the live config, and the
\* fields the adapter is bound to, as updateConfig(p) made once does: from
\* every reachable state and for every input p, and in every run where the
\* client repeats its last updateConfig.
C13_UpdateConfigIdempotent ==
    /\ [](\A p \in Partials :
            LET once == updated(Service, p, env)
                twice == updated(once, p, env)
            IN /\ twice.heap[twice.config] = once.heap[once.config]
               /\ twice.adapters[twice.model] = once.adapters[once.model])
    /\ [][(/\ lastCall.op = "updateConfig"
           /\ lastCall'.op = "updateConfig"
           /\ calls' = calls + 1
           /\ lastCall'.arg = lastCall.arg)
          => /\ heap'[config'] = heap[config]
             /\ adapters'[model'] = adapters[model]]_vars

\* C13's case: an updateConfig found the fields it provides already set to the
\* values it provides by the updateConfig before it, which had changed one.
C13_Witness ==
    /\ lastCall.op = "updateConfig"
    /\ lastCall.config > 1
    /\ LiveConfig = ConfigBefore
    /\ \A k \in Fields : lastCall.arg[k] # Undefined => ConfigBefore[k] = lastCall.arg[k]
    /\ \E k \in Fields :
          /\ lastCall.arg[k] # Undefined
          /\ heap[lastCall.config - 1][k] # lastCall.arg[k]

\* The save made last, and the config that was live when it was made.
LastSave == saved[Len(saved)]
ConfigAtSave(r) == heap[r.config]

\* The display name a role is headed by in a markdown transcript.
DisplayName(r) == [system |-> "System", user |-> "User", assistant |-> "Assistant"][r]

\* The sections of a markdown transcript of the conversation C, first to last.
RECURSIVE Sections(_)
Sections(C) ==
    IF C = <<>> THEN ""
    ELSE "## " \o DisplayName(Head(C).role) \o "\n\n" \o Head(C).content
            \o "\n\n---\n\n" \o Sections(Tail(C))

\* C14: the file a successful save wrote is faithful to the conversation it
\* was given: as json it reads back with messages equal to the conversation
\* and the provider and model of the config live at the save; as markdown it
\* is the title line and the model line followed by one section per message,
\* in conversation order, headed by the role's display name and holding the
\* raw content.
C14_TranscriptIsFaithful ==
    (saved # <<>> /\ LastSave.kind = "return") =>
        LET r == LastSave
            cfg == ConfigAtSave(r)
            file == files[r.value]
        IN IF cfg.saveFormat = "markdown"
           THEN /\ file.format = "markdown"
                /\ file.text = "# Chat - " \o toLocaleString(r.stamped) \o "\n\n"
                                  \o "**Model**: " \o cfg.model \o " (" \o cfg.provider
                                  \o ")\n\n---\n\n" \o Sections(r.arg)
           ELSE /\ file.format = "json"
                /\ file.data.messages = r.arg
                /\ file.data.provider = cfg.provider
                /\ file.data.model = cfg.model

\* C14's case: a markdown transcript of a conversation that has a system
\* message was written after a json transcript, under another provider.
C14_Witness ==
    /\ Len(saved) >= 2
    /\ LastSave.kind = "return"
    /\ ConfigAtSave(LastSave).saveFormat = "markdown"
    /\ \E i \in 1..Len(LastSave.arg) : LastSave.arg[i].role = "system"
    /\ \E i \in 1..(Len(saved) - 1) :
          /\ saved[i].kind = "return"
          /\ files[saved[i].value].format = "json"
          /\ ConfigAtSave(saved[i]).provider # ConfigAtSave(LastSave).provider

\* C15: any two successful saves of a session return different file paths, so
\* no save overwrites the file of an earlier one.
C15_SavesHaveUniqueNames ==
    \A i, j \in 1..Len(saved) :
        (i < j /\ saved[i].kind = "return" /\ saved[j].kind = "return")
            => saved[i].value # saved[j].value

\* The timestamp of a file name: the ISO-8601 instant with every ':' and '.'
\* replaced by '-'.
NameStamp(t) == Concat(replaceColonDot(toISOString(t)))

\* A title lower-cased, with every character outside [a-z0-9] replaced by '-'.
SlugOf(title) ==
    Concat([i \in 1..Len(title) |->
              IF toLowerCase(title[i]) \in LowerCase \cup Digits
              THEN toLowerCase(title[i]) ELSE "-"])

\* C16: a save writes the markdown encoding under the md extension exactly
\* when the saveFormat of the live config is 'markdown', and the json encoding
\* under the json extension for every other value, absent and unrecognized
\* included; it fails only when the filesystem does.
C16_FormatFallsBackToJson ==
    \A i \in 1..Len(saved) :
        LET r == saved[i]
            cfg == ConfigAtSave(r)
            markdown == cfg.saveFormat = "markdown"
            stem == NameStamp(r.at) \o "-"
                      \o (IF r.title = NoTitle THEN "chat" ELSE SlugOf(r.title))
        IN /\ r.kind = "throw" <=> r.fault # "none"
           /\ r.kind = "return" =>
                r.value = pathJoin(saveDir(cfg, env),
                                   stem \o (IF markdown THEN ".md" ELSE ".json"))
           /\ (r.kind = "return" /\ i = Len(saved)) =>
                files[r.value].format = (IF markdown THEN "markdown" ELSE "json")

\* C16's case: a save was made with no saveFormat in the live config and then,
\* after an updateConfig, one with an unrecognized saveFormat.
C16_Witness ==
    /\ saved # <<>>
    /\ LastSave.kind = "return"
    /\ ConfigAtSave(LastSave).saveFormat = "yaml"
    /\ files[LastSave.value].format = "json"
    /\ \E i \in 1..Len(saved) :
          saved[i].kind = "return" /\ ConfigAtSave(saved[i]).saveFormat = Undefined

\* C17: the file name is the timestamp, then '-<slug>' when a title
\* is given, then '-chat.<ext>'.
C17_NameEndsInChat ==
    \A i \in 1..Len(saved) :
        LET r == saved[i]
            cfg == ConfigAtSave(r)
        IN r.kind = "return" =>
             r.value = pathJoin(saveDir(cfg, env),
                          NameStamp(r.at)
                            \o (IF r.title = NoTitle THEN "" ELSE "-" \o SlugOf(r.title))
                            \o "-chat."
                            \o (IF cfg.saveFormat = "markdown" THEN "md" ELSE "json"))

\* C18: a save that the filesystem fails, at the directory or at the file,
\* throws the one kind of error, whose message names the path the save was to
\* write; a save returns a path only when the file was written.
C18_FailureNamesThePath ==
    \A i \in 1..Len(saved) :
        LET r == saved[i]
        IN /\ r.fault # "none" =>
                /\ r.kind = "throw"
                /\ Head(r.error) = "Failed to save chat: "
                /\ \E k \in 1..Len(r.error) : r.error[k] = r.path
           /\ r.kind = "return" => r.fault = "none"

\* The texts of a numeric field that hold no number.
NotNumbers == {"abc", ""}

\* The settings were saved by the call made last.
SettingsSaved == lastCall.op = "updateConfig" /\ "typed" \in DOMAIN lastCall

\* C19: a settings save goes through whatever the numeric fields hold: when
\* the temperature field holds no number the live config's temperature is 0.7
\* after the save, and when the maxTokens field holds no number its maxTokens
\* is 1000.
C19_InvalidNumbersFallBack ==
    SettingsSaved =>
        /\ lastCall.typed.temperature \in NotNumbers => LiveConfig.temperature = "0.7"
        /\ lastCall.typed.maxTokens \in NotNumbers => LiveConfig.maxTokens = "1000"

\* C19's case: the settings were saved with no number in either numeric field
\* over a config that held another temperature and another maxTokens.
C19_Witness ==
    /\ SettingsSaved
    /\ lastCall.typed.temperature = "abc"
    /\ lastCall.typed.maxTokens = "abc"
    /\ ConfigBefore.temperature = "0.5"
    /\ ConfigBefore.maxTokens = "256"
    /\ LiveConfig.temperature = "0.7"
    /\ LiveConfig.maxTokens = "1000"

\* C20: in the settings view a key press before the last field leaves the
\* view on settings and the focus where it was or on the next field in order,
\* and the view returns to chat only by the press that applies the edited
\* settings with updateConfig.
C20_KeysWalkTheFields ==
    [][view = "settings" =>
          /\ currentField # "saveFormat" =>
                /\ view' = "settings"
                /\ currentField' \in {currentField, nextField(currentField)}
          /\ view' = "chat" =>
                /\ lastCall'.op = "updateConfig"
                /\ calls' > calls]_vars

\* C21: a settings save with the API key field left blank leaves the live
\* config without an explicit credential, whatever the config held before, and
\* the rebuilt adapter gets the credential of the environment.
C21_BlankKeyClearsCredential ==
    (SettingsSaved /\ lastCall.typed.apiKey = "") =>
        /\ LiveConfig.apiKey = Undefined
        /\ adapters[model].apiKey = EnvKey(LiveConfig.provider)

\* C22: while the chat view is shown its loading flag is true exactly when a
\* sendMessage started by a submit has neither resolved nor failed.
C22_LoadingTracksSends ==
    view = "chat" => (isLoading <=> inflight # <<>>)

\* C23: a settings save stores every numeric input unchanged: a temperature
\* text that parses as a number (0 included) is the live config's temperature
\* after the save, a maxTokens text that parses as an integer is its
\* maxTokens, and 0.7 and 1000 are used only for texts that do not parse.
C23_ValidNumbersAreStored ==
    SettingsSaved =>
        LET t == lastCall.typed.temperature
            n == lastCall.typed.maxTokens
        IN /\ parseFloat(t) # "NaN" => LiveConfig.temperature = parseFloat(t)
           /\ parseInt(n) # "NaN" => LiveConfig.maxTokens = parseInt(n)
           /\ (LiveConfig.temperature = "0.7" /\ t # "0.7") => parseFloat(t) = "NaN"
           /\ (LiveConfig.maxTokens = "1000" /\ n # "1000") => parseInt(n) = "NaN"

====
